---- MODULE Spec2Model ----
(***************************************************************************)
(* Incremental enrichment pipeline of adsb-analytics.                      *)
(*                                                                         *)
(*   fetch_adsb_local.py   appends Observation rows (table aircraft)       *)
(*   enrich_aircraft.py    selects hex codes still to enrich, looks each   *)
(*                         up at adsbdb, upserts table aircraft_enriched   *)
(*                                                                         *)
(* Text values (hex codes, ISO-8601 timestamps) are sequences of           *)
(* one-character strings, compared the way SQLite compares TEXT (BINARY    *)
(* collation, i.e. by character code).                                     *)
(***************************************************************************)
EXTENDS Integers, Sequences, FiniteSets, TLC

VARIABLES
    clock,              \* wall clock, in ticks (datetime.now(timezone.utc))
    aircraft,           \* table aircraft: sequence of rows, id = index
    aircraft_enriched,  \* table aircraft_enriched: set of rows
    pc,                 \* position of the enrichment process in main()
    argv,               \* the run's options: policy, days, batch_size
    hex_codes,          \* main(): the selected candidates
    i,                  \* main(): loop index (0-based, as enumerate)
    data,               \* main(): result of the lookup of hex_codes[i]
    success_count,      \* main(): counter
    not_found_count,    \* main(): counter
    stdout,             \* what the run has printed (kinds of lines)
    calls,              \* the run's calls, in order: lookup / save / sleep
    last_write,         \* per key, the row of the most recent save_enrichment
    prev                \* the previous run, as it ended

vars == <<clock, aircraft, aircraft_enriched, pc, argv, hex_codes, i, data,
          success_count, not_found_count, stdout, calls, last_write, prev>>

----------------------------------------------------------------------------
(* Bounds of the model *)

MaxTicks == 1       \* clock ticks explored after the start
MaxObs == 2         \* rows of table aircraft
MaxLimit == 2       \* largest --batch-size
MaxDays == 1        \* largest --days
TicksPerDay == 2    \* sampled instants per UTC day
MaxSelObs == 5      \* rows of table aircraft, for the selector alone

\* SQL NULL / Python None: a value that is no text (a text is a sequence of
\* one-character strings, the empty text is <<>>).
NULL == <<"NULL">>

----------------------------------------------------------------------------
(* Text *)

\* Character codes of the characters that occur (ASCII).
Code(c) ==
    CASE c = "+" -> 43 [] c = "." -> 46
      [] c = "0" -> 48 [] c = "1" -> 49 [] c = "2" -> 50 [] c = "3" -> 51
      [] c = "4" -> 52 [] c = "5" -> 53 [] c = "6" -> 54 [] c = "7" -> 55
      [] c = "8" -> 56 [] c = "9" -> 57
      [] c = "A" -> 65 [] c = "B" -> 66 [] c = "C" -> 67
      [] c = "a" -> 97 [] c = "b" -> 98 [] c = "c" -> 99

Digit(n) == <<"0", "1", "2", "3", "4", "5", "6", "7", "8", "9">>[n + 1]

\* SQLite's comparison of two TEXT values: memcmp, the shorter a prefix first.
RECURSIVE TextLess(_, _)
TextLess(s, t) ==
    IF t = <<>> THEN FALSE
    ELSE IF s = <<>> THEN TRUE
    ELSE IF Code(Head(s)) # Code(Head(t)) THEN Code(Head(s)) < Code(Head(t))
    ELSE TextLess(Tail(s), Tail(t))

TextLeq(s, t) == s = t \/ TextLess(s, t)

\* str.upper(), character by character.
UpperChar(c) ==
    CASE c = "a" -> "A" [] c = "b" -> "B" [] c = "c" -> "C" [] OTHER -> c

Upper(s) == [k \in 1..Len(s) |-> UpperChar(s[k])]

----------------------------------------------------------------------------
(* Time *)

\* An instant is a tick count: day = t \div TicksPerDay, and t % TicksPerDay
\* is the fraction of a second past that day's 00:00:00 (0 = on the second).
\* The run starts late enough for "now - days" to be a date.
ClockStart == MaxDays * TicksPerDay

\* datetime.isoformat(): the date and time, then the microseconds only when
\* they are not zero, then the offset.  The constant parts ("-", "T00:00:00",
\* "00:00" of the offset) are left out.
IsoFormat(t) ==
    <<Digit(t \div TicksPerDay)>>
      \o (IF t % TicksPerDay = 0 THEN <<>> ELSE <<".", Digit(t % TicksPerDay)>>)
      \o <<"+">>

\* The timestamps the clock can produce.
Instants == ClockStart..(ClockStart + MaxTicks)

Tick ==
    /\ clock < ClockStart + MaxTicks
    /\ clock' = clock + 1
    /\ UNCHANGED <<aircraft, aircraft_enriched, pc, argv, hex_codes, i, data,
                   success_count, not_found_count, stdout, calls, last_write, prev>>

----------------------------------------------------------------------------
(* fetch_adsb_local.py: ingestion *)

\* Hex values dump1090 may report for an aircraft (None: no "hex" key).
RawHex == {<<"a", "1">>, <<"A", "1">>, <<"b", "2">>, NULL}

\* The aircraft lists a fetch may return.
AircraftLists ==
    {<<h>> : h \in RawHex} \cup {<<g, h>> : g \in RawHex, h \in RawHex}

\* Mutant of StoredRows: the hex is stored as the receiver reported it.
StoredRowsAsReported(aircraft_list, now) ==
    LET Keep(k) == aircraft_list[k] # NULL /\ aircraft_list[k] # <<>>
        F[k \in 0..Len(aircraft_list)] ==
            IF k = 0 THEN <<>>
            ELSE IF Keep(k)
                 THEN Append(F[k - 1],
                             [timestamp |-> now, hex |-> aircraft_list[k]])
                 ELSE F[k - 1]
    IN  F[Len(aircraft_list)]

\* store_data, loop body: the row stored for one aircraft of the list, if any.
StoredRows(aircraft_list, now) ==
    LET Keep(k) == aircraft_list[k] # NULL /\ aircraft_list[k] # <<>>
        F[k \in 0..Len(aircraft_list)] ==
            IF k = 0 THEN <<>>
            ELSE IF Keep(k)
                 THEN Append(F[k - 1],
                             [timestamp |-> now, hex |-> Upper(aircraft_list[k])])
                 ELSE F[k - 1]
    IN  F[Len(aircraft_list)]

store_data ==
    \E aircraft_list \in AircraftLists :
        LET rows == StoredRows(aircraft_list, IsoFormat(clock)) IN
        /\ Len(aircraft) + Len(rows) <= MaxObs
        /\ aircraft' = aircraft \o rows
        /\ UNCHANGED <<clock, aircraft_enriched, pc, argv, hex_codes, i, data,
                       success_count, not_found_count, stdout, calls,
                       last_write, prev>>

----------------------------------------------------------------------------
(* enrich_aircraft.py: the Enrichment Store *)

\* dict.get(key, default)
Get(d, key, default) == IF key \in DOMAIN d THEN d[key] ELSE default

\* Python truthiness of an Optional[str]
Truthy(v) == v # NULL /\ v # <<>>

\* Mutant of InsertOrReplace: a plain INSERT on a table without the key.
InsertOnly(table, row) == table \cup {row}

\* INSERT OR REPLACE on a table whose PRIMARY KEY is hex: the rows in conflict
\* with the new row are deleted, then the row is inserted.
InsertOrReplace(table, row) == {r \in table : r.hex # row.hex} \cup {row}

\* The row save_enrichment(hex_code, data) writes at time now.
EnrichmentRow(hex_code, d, now) ==
    [hex            |-> Upper(hex_code),
     registration   |-> Get(d, "registration", NULL),
     type           |-> Get(d, "type", NULL),
     manufacturer   |-> Get(d, "manufacturer", NULL),
     operator       |-> Get(d, "operator", NULL),
     origin_country |-> Get(d, "origin_country", NULL),
     last_updated   |-> now,
     source         |-> Get(d, "source", <<"u", "n", "k", "n", "o", "w", "n">>)]

save_enrichment(table, hex_code, d, now) ==
    InsertOrReplace(table, EnrichmentRow(hex_code, d, now))

ADSBDB == <<"a", "d", "s", "b", "d", "b">>
NOT_FOUND == <<"n", "o", "t", "_", "f", "o", "u", "n", "d">>

----------------------------------------------------------------------------
(* enrich_aircraft.py: the Candidate Selector *)

\* The row of NULLs a LEFT JOIN supplies when no row of e matches.
NullRow ==
    [hex |-> NULL, registration |-> NULL, type |-> NULL, manufacturer |-> NULL,
     operator |-> NULL, origin_country |-> NULL, last_updated |-> NULL,
     source |-> NULL]

\* aircraft a LEFT JOIN aircraft_enriched e ON a.hex = e.hex
\* (a is the index of the row of table obs).
LeftJoin(obs, enr) ==
    UNION { LET m == {e \in enr : e.hex = obs[k].hex}
            IN  IF m = {} THEN {[a |-> k, e |-> NullRow]}
                ELSE {[a |-> k, e |-> e] : e \in m}
          : k \in 1..Len(obs) }

\* Mutant of Where: the condition on the record is missing.
WhereAnyRecord(obs, enr, cutoff, strict) ==
    {j \in LeftJoin(obs, enr) :
        /\ IF strict THEN TextLess(cutoff, obs[j.a].timestamp)
                     ELSE TextLeq(cutoff, obs[j.a].timestamp)
        /\ obs[j.a].hex # NULL}

\* Mutant of Where: only hex codes without any record pass.
WhereNoRecord(obs, enr, cutoff, strict) ==
    {j \in LeftJoin(obs, enr) :
        /\ IF strict THEN TextLess(cutoff, obs[j.a].timestamp)
                     ELSE TextLeq(cutoff, obs[j.a].timestamp)
        /\ j.e.hex = NULL
        /\ obs[j.a].hex # NULL}

\* Mutant of Where: >= in place of >.
WhereNotStrict(obs, enr, cutoff, strict) ==
    {j \in LeftJoin(obs, enr) :
        /\ TextLeq(cutoff, obs[j.a].timestamp)
        /\ (j.e.hex = NULL \/ j.e.registration = NULL)
        /\ obs[j.a].hex # NULL}

\* WHERE a.timestamp > ? (strict) or >= ? (not strict)
\*   AND (e.hex IS NULL OR e.registration IS NULL) AND a.hex IS NOT NULL
Where(obs, enr, cutoff, strict) ==
    {j \in LeftJoin(obs, enr) :
        /\ IF strict THEN TextLess(cutoff, obs[j.a].timestamp)
                     ELSE TextLeq(cutoff, obs[j.a].timestamp)
        /\ (j.e.hex = NULL \/ j.e.registration = NULL)
        /\ obs[j.a].hex # NULL}

\* GROUP BY a.hex: one group per hex, with MAX(a.timestamp) and COUNT(*).
GroupBy(obs, rows) ==
    LET hexes == {obs[j.a].hex : j \in rows}
        grp(h) == {j \in rows : obs[j.a].hex = h}
    IN  {[hex       |-> h,
          last_seen |-> (CHOOSE t \in {obs[j.a].timestamp : j \in grp(h)} :
                            \A j \in grp(h) : TextLeq(obs[j.a].timestamp, t)),
          ping_count |-> Cardinality(grp(h))] : h \in hexes}

\* All the orders of a set of groups.
Orders(groups) ==
    {s \in [1..Cardinality(groups) -> groups] :
        \A x, y \in DOMAIN s : x # y => s[x] # s[y]}

\* Mutant of RecentBefore: ORDER BY last_seen DESC alone.
RecentBeforeLastSeen(g, h) == TextLeq(h.last_seen, g.last_seen)

\* ORDER BY last_seen DESC, ping_count DESC: g may come before h.
RecentBefore(g, h) ==
    \/ TextLess(h.last_seen, g.last_seen)
    \/ g.last_seen = h.last_seen /\ g.ping_count >= h.ping_count

\* ORDER BY ping_count DESC
TodayBefore(g, h) == g.ping_count >= h.ping_count

\* LIMIT n: the first n rows; a negative n is no limit (SQLite).
Limit(s, n) ==
    IF n < 0 \/ n >= Len(s) THEN s ELSE SubSeq(s, 1, n)

HexColumn(s) == [k \in DOMAIN s |-> s[k].hex]

\* get_recent_unenriched_hex_codes(days, limit) at time now: the lists the
\* query may return (SQL leaves the order of rows that tie unspecified).
get_recent_unenriched_hex_codes(obs, enr, now, days, limit) ==
    LET cutoff_date == IsoFormat(now - days * TicksPerDay)
        groups == GroupBy(obs, Where(obs, enr, cutoff_date, TRUE))
    IN  {HexColumn(Limit(s, limit)) :
            s \in {o \in Orders(groups) :
                      \A x, y \in DOMAIN o : x < y => RecentBefore(o[x], o[y])}}

\* get_todays_unenriched_hex_codes(limit) at time now.
get_todays_unenriched_hex_codes(obs, enr, now, limit) ==
    LET today_start == IsoFormat(now - (now % TicksPerDay))
        groups == GroupBy(obs, Where(obs, enr, today_start, FALSE))
    IN  {HexColumn(Limit(s, limit)) :
            s \in {o \in Orders(groups) :
                      \A x, y \in DOMAIN o : x < y => TodayBefore(o[x], o[y])}}

----------------------------------------------------------------------------
(* enrich_aircraft.py: the Lookup Client *)

\* Aircraft objects adsbdb may send: fully described, known without a
\* registration, known with an empty registration.
AcFull ==
    [registration |-> <<"N", "1">>, icao_type |-> <<"B", "7">>,
     manufacturer |-> <<"B", "o">>, registered_owner |-> <<"D", "L">>,
     registered_owner_country_name |-> <<"U", "S">>]
AcNoReg == [icao_type |-> <<"B", "7">>, manufacturer |-> <<"B", "o">>]
AcEmptyReg == [registration |-> <<>>, icao_type |-> <<"B", "7">>]

\* What requests.get and response.json() may produce: an exception (transport
\* failure, timeout, malformed payload), or a status code with, for 200, the
\* "response" member of the body: a string, or an object whose "aircraft"
\* member is an object (<<>>: absent or empty).
Responses ==
    {[raised |-> TRUE],
     [raised |-> FALSE, status_code |-> 404],
     [raised |-> FALSE, status_code |-> 500],
     [raised |-> FALSE, status_code |-> 200, response |-> [isdict |-> FALSE]]}
    \cup {[raised |-> FALSE, status_code |-> 200,
           response |-> [isdict |-> TRUE, aircraft |-> ac]]
          : ac \in {<<>>, AcFull, AcNoReg, AcEmptyReg}}

\* enrich_from_adsbdb: the Optional[Dict] returned for a response
\* (<<>> is None, <<d>> the dict d).
enrich_from_adsbdb(r) ==
    IF r.raised THEN <<>>
    ELSE IF r.status_code = 200
    THEN IF r.response.isdict
         THEN LET ac == r.response.aircraft
              IN  IF DOMAIN ac # {}
                  THEN <<[registration   |-> Get(ac, "registration", NULL),
                          type           |-> Get(ac, "icao_type", NULL),
                          manufacturer   |-> Get(ac, "manufacturer", NULL),
                          operator       |-> Get(ac, "registered_owner", NULL),
                          origin_country |->
                              Get(ac, "registered_owner_country_name", NULL),
                          source         |-> ADSBDB]>>
                  ELSE <<>>
         ELSE <<>>
    ELSE <<>>

----------------------------------------------------------------------------
(* enrich_aircraft.py: main(), the Run Controller *)

\* The keys table aircraft_enriched can hold.
Keys == {Upper(h) : h \in RawHex \ {NULL}}

\* Positions of main() at which the process is running.
Running ==
    {"main", "select", "enrich", "in_flight", "returned", "saved", "pace",
     "report"}

\* The options a run may be started with (--today-only, --days N,
\* --batch-size N).
Argvs ==
    [today_only : BOOLEAN, days : 0..MaxDays, batch_size : 0..MaxLimit]

\* The save_enrichment calls of a call log, in order.
SavedCalls(log) == SelectSeq(log, LAMBDA c : c.op = "save")

\* The process is launched (no run is going on).
StartRun ==
    /\ pc \notin Running
    /\ \E a \in Argvs : argv' = a
    /\ pc' = "main"
    /\ prev' = [pc |-> pc, hex_codes |-> hex_codes, saved |-> SavedCalls(calls),
                nobs |-> Len(aircraft)]
    /\ hex_codes' = <<>>
    /\ i' = 0
    /\ data' = <<>>
    /\ success_count' = 0
    /\ not_found_count' = 0
    /\ stdout' = <<>>
    /\ calls' = <<>>
    /\ UNCHANGED <<clock, aircraft, aircraft_enriched, last_write>>

\* main, lines 211-218: setup_enrichment_table (CREATE TABLE IF NOT EXISTS
\* leaves an existing table alone), get_stats, the statistics are printed.
Initialize ==
    /\ pc = "main"
    /\ stdout' = Append(stdout, [line |-> "stats"])
    /\ pc' = "select"
    /\ UNCHANGED <<clock, aircraft, aircraft_enriched, argv, hex_codes, i, data,
                   success_count, not_found_count, calls, last_write, prev>>

\* The lists the selector of the run's policy may return now.
Selections ==
    IF argv.today_only
    THEN get_todays_unenriched_hex_codes(aircraft, aircraft_enriched, clock,
                                         argv.batch_size)
    ELSE get_recent_unenriched_hex_codes(aircraft, aircraft_enriched, clock,
                                         argv.days, argv.batch_size)

\* main, lines 220-236: the candidates are selected; with none the run ends.
Select ==
    /\ pc = "select"
    /\ \E hc \in Selections :
        /\ hex_codes' = hc
        /\ IF hc = <<>>
           THEN /\ stdout' = Append(stdout, [line |-> "none"])
                /\ pc' = "exit"
           ELSE /\ stdout' = Append(stdout, [line |-> "found"])
                /\ pc' = "enrich"
    /\ success_count' = 0
    /\ not_found_count' = 0
    /\ i' = 0
    /\ UNCHANGED <<clock, aircraft, aircraft_enriched, argv, data, calls,
                   last_write, prev>>

\* main, line 242 and enrich_from_adsbdb, lines 141-147: the request for
\* hex_codes[i] is sent.
Request ==
    /\ pc = "enrich"
    /\ calls' = Append(calls, [op |-> "lookup", hex |-> Upper(hex_codes[i + 1])])
    /\ pc' = "in_flight"
    /\ UNCHANGED <<clock, aircraft, aircraft_enriched, argv, hex_codes, i, data,
                   success_count, not_found_count, stdout, last_write, prev>>

\* enrich_from_adsbdb, lines 147-177: the request ends (a response, or an
\* exception which is caught) and the lookup returns.
Response ==
    /\ pc = "in_flight"
    /\ \E r \in Responses : data' = enrich_from_adsbdb(r)
    /\ pc' = "returned"
    /\ UNCHANGED <<clock, aircraft, aircraft_enriched, argv, hex_codes, i,
                   success_count, not_found_count, stdout, calls, last_write, prev>>

\* Mutant of Found: a registration that is not None counts, the empty one too.
FoundNotNone(d) == d # <<>> /\ Get(d[1], "registration", NULL) # NULL

\* main, line 244: if data and data.get('registration')
Found(d) == d # <<>> /\ Truthy(Get(d[1], "registration", NULL))

\* Mutant of Saved: a result without registration is saved as it is, marked
\* not_found.
SavedMarked(d) ==
    IF Found(d) THEN d[1]
    ELSE IF d # <<>> THEN [d[1] EXCEPT !.source = NOT_FOUND]
    ELSE [source |-> NOT_FOUND]

\* The dict main hands to save_enrichment.
Saved(d) == IF Found(d) THEN d[1] ELSE [source |-> NOT_FOUND]

\* main, lines 245 and 250: save_enrichment commits the record.
Save ==
    /\ pc = "returned"
    /\ LET row == EnrichmentRow(hex_codes[i + 1], Saved(data), IsoFormat(clock))
       IN  /\ aircraft_enriched' =
                save_enrichment(aircraft_enriched, hex_codes[i + 1], Saved(data),
                                IsoFormat(clock))
           /\ calls' = Append(calls, [op |-> "save", hex |-> row.hex,
                                      found |-> Found(data)])
           /\ last_write' = [last_write EXCEPT ![row.hex] = row]
    /\ pc' = "saved"
    /\ UNCHANGED <<clock, aircraft, argv, hex_codes, i, data, success_count,
                   not_found_count, stdout, prev>>

\* main, lines 248 and 253: the counter of the outcome is incremented.
Count ==
    /\ pc = "saved"
    /\ IF Found(data)
       THEN success_count' = success_count + 1 /\ UNCHANGED not_found_count
       ELSE not_found_count' = not_found_count + 1 /\ UNCHANGED success_count
    /\ pc' = "pace"
    /\ UNCHANGED <<clock, aircraft, aircraft_enriched, argv, hex_codes, i, data,
                   stdout, calls, last_write, prev>>

\* Mutant of PaceNeeded: the delay follows every candidate.
PaceAlways(k, n) == TRUE

\* main, line 256: if i < len(hex_codes) - 1
PaceNeeded(k, n) == k < n - 1

\* Mutant of Pace: the loop ends after a lookup that gave nothing.
PaceStopOnFailure ==
    /\ pc = "pace"
    /\ calls' = IF PaceNeeded(i, Len(hex_codes))
                THEN Append(calls, [op |-> "sleep"])
                ELSE calls
    /\ IF i + 1 < Len(hex_codes) /\ data # <<>>
       THEN i' = i + 1 /\ pc' = "enrich"
       ELSE i' = i /\ pc' = "report"
    /\ UNCHANGED <<clock, aircraft, aircraft_enriched, argv, hex_codes, data,
                   success_count, not_found_count, stdout, last_write, prev>>

\* main, lines 255-257 and 238: time.sleep(0.3) unless the candidate was the
\* last one, then the next iteration, or the loop ends.
Pace ==
    /\ pc = "pace"
    /\ calls' = IF PaceNeeded(i, Len(hex_codes))
                THEN Append(calls, [op |-> "sleep"])
                ELSE calls
    /\ IF i + 1 < Len(hex_codes)
       THEN i' = i + 1 /\ pc' = "enrich"
       ELSE i' = i /\ pc' = "report"
    /\ UNCHANGED <<clock, aircraft, aircraft_enriched, argv, hex_codes, data,
                   success_count, not_found_count, stdout, last_write, prev>>

\* Mutant of Report: the statistics are not printed again.
ReportWithoutStats ==
    /\ pc = "report"
    /\ stdout' = stdout \o
          <<[line |-> "DONE", success_count |-> success_count,
             total |-> Len(hex_codes), not_found_count |-> not_found_count],
            [line |-> "TIME"]>>
    /\ pc' = "exit"
    /\ UNCHANGED <<clock, aircraft, aircraft_enriched, argv, hex_codes, i, data,
                   success_count, not_found_count, calls, last_write, prev>>

\* main, lines 259-268: the final counts, the time and the new statistics.
Report ==
    /\ pc = "report"
    /\ stdout' = stdout \o
          <<[line |-> "DONE", success_count |-> success_count,
             total |-> Len(hex_codes), not_found_count |-> not_found_count],
            [line |-> "TIME"],
            [line |-> "stats"]>>
    /\ pc' = "exit"
    /\ UNCHANGED <<clock, aircraft, aircraft_enriched, argv, hex_codes, i, data,
                   success_count, not_found_count, calls, last_write, prev>>

\* Ctrl-C: KeyboardInterrupt is raised wherever main() is; nothing catches it
\* (except Exception, line 174, does not), the process ends with a traceback.
Interrupt ==
    /\ pc \in Running
    /\ pc' = "killed"
    /\ UNCHANGED <<clock, aircraft, aircraft_enriched, argv, hex_codes, i, data,
                   success_count, not_found_count, stdout, calls, last_write, prev>>

----------------------------------------------------------------------------
(* The system: the clock, the ingestion, one enrichment process at a time *)

Init ==
    /\ clock = ClockStart
    /\ aircraft = <<>>
    /\ aircraft_enriched = {}
    /\ pc = "idle"
    /\ argv = [today_only |-> FALSE, days |-> 0, batch_size |-> 0]
    /\ hex_codes = <<>>
    /\ i = 0
    /\ data = <<>>
    /\ success_count = 0
    /\ not_found_count = 0
    /\ stdout = <<>>
    /\ calls = <<>>
    /\ last_write = [k \in Keys |-> NullRow]
    /\ prev = [pc |-> "idle", hex_codes |-> <<>>, saved |-> <<>>, nobs |-> 0]

Next ==
    \/ Tick
    \/ store_data
    \/ StartRun
    \/ Initialize
    \/ Select
    \/ Request
    \/ Response
    \/ Save
    \/ Count
    \/ Pace
    \/ Report
    \/ Interrupt

Spec == Init /\ [][Next]_vars

----------------------------------------------------------------------------
(* The Candidate Selector alone: one selection (main, lines 220-236) over  *)
(* the tables the ingestion and earlier runs can have left                  *)

\* The rows store_data can have stored up to time now.
ObservationRows(now) ==
    {[timestamp |-> IsoFormat(t), hex |-> Upper(h)] :
        t \in 0..now, h \in RawHex \ {NULL}}

\* Rows in the order of their insertion: by time (within one fetch, by hex).
InsertedBefore(r, q) ==
    \/ TextLess(r.timestamp, q.timestamp)
    \/ r.timestamp = q.timestamp /\ TextLess(r.hex, q.hex)

\* The tables of at most MaxSelObs distinct rows.
ObservationTables(now) ==
    {CHOOSE s \in Orders(R) :
        \A x, y \in DOMAIN s : x < y => InsertedBefore(s[x], s[y])
     : R \in {Q \in SUBSET ObservationRows(now) : Cardinality(Q) <= MaxSelObs}}

\* The rows main can have written for a key: a placeholder, a full record.
EnrichedRows(k) ==
    {EnrichmentRow(k, Saved(<<>>), IsoFormat(0)),
     EnrichmentRow(k, Saved(enrich_from_adsbdb(
         [raised |-> FALSE, status_code |-> 200,
          response |-> [isdict |-> TRUE, aircraft |-> AcFull]])), IsoFormat(0))}

\* The tables with at most one row per key.
EnrichedTables ==
    {T \in SUBSET (UNION {EnrichedRows(k) : k \in Keys}) :
        \A r, q \in T : r.hex = q.hex => r = q}

InitSel ==
    /\ clock \in Instants
    /\ aircraft \in ObservationTables(clock)
    /\ aircraft_enriched \in EnrichedTables
    /\ pc = "select"
    /\ argv \in Argvs
    /\ hex_codes = <<>>
    /\ i = 0
    /\ data = <<>>
    /\ success_count = 0
    /\ not_found_count = 0
    /\ stdout = <<[line |-> "stats"]>>
    /\ calls = <<>>
    /\ last_write =
          [k \in Keys |->
              IF \E r \in aircraft_enriched : r.hex = k
              THEN CHOOSE r \in aircraft_enriched : r.hex = k
              ELSE NullRow]
    /\ prev = [pc |-> "idle", hex_codes |-> <<>>, saved |-> <<>>, nobs |-> 0]

NextSel == Select

SpecSel == InitSel /\ [][NextSel]_vars

----------------------------------------------------------------------------
(* Repeated runs: the process is launched again and again with the same    *)
(* options over tables nothing else writes to, and no run is interrupted   *)

\* The tables of at most MaxObs rows.
SmallObservationTables(now) ==
    {s \in ObservationTables(now) : Len(s) <= MaxObs}

\* The process is launched again with the options of the run before.
Rerun ==
    /\ pc \notin Running
    /\ pc' = "main"
    /\ prev' = [pc |-> pc, hex_codes |-> hex_codes, saved |-> SavedCalls(calls),
                nobs |-> Len(aircraft)]
    /\ hex_codes' = <<>>
    /\ i' = 0
    /\ data' = <<>>
    /\ success_count' = 0
    /\ not_found_count' = 0
    /\ stdout' = <<>>
    /\ calls' = <<>>
    /\ UNCHANGED <<clock, aircraft, aircraft_enriched, argv, last_write>>

InitLive ==
    /\ clock \in Instants
    /\ aircraft \in SmallObservationTables(clock)
    /\ aircraft_enriched = {}
    /\ pc = "idle"
    /\ argv \in Argvs
    /\ hex_codes = <<>>
    /\ i = 0
    /\ data = <<>>
    /\ success_count = 0
    /\ not_found_count = 0
    /\ stdout = <<>>
    /\ calls = <<>>
    /\ last_write = [k \in Keys |-> NullRow]
    /\ prev = [pc |-> "idle", hex_codes |-> <<>>, saved |-> <<>>, nobs |-> 0]

NextLive ==
    \/ Rerun
    \/ Initialize
    \/ Select
    \/ Request
    \/ Response
    \/ Save
    \/ Count
    \/ Pace
    \/ Report

\* Every run goes on to its end (each request ends, by its timeout at the
\* latest) and another run follows.
SpecLive == InitLive /\ [][NextLive]_vars /\ WF_vars(NextLive)

----------------------------------------------------------------------------
(* Vocabulary of the properties *)

Range(s) == {s[k] : k \in DOMAIN s}

\* The descriptive fields of a row are all null.
AllNull(r) ==
    /\ r.registration = NULL
    /\ r.type = NULL
    /\ r.manufacturer = NULL
    /\ r.operator = NULL
    /\ r.origin_country = NULL

\* The states of the Run Controller (spec, 4.4) as positions of main().
Phase ==
    CASE pc = "idle" -> "IDLE"
      [] pc = "main" -> "INITIALIZING"
      [] pc = "select" -> "SELECTING"
      [] pc \in {"enrich", "in_flight", "returned", "saved", "pace"}
            -> "ENRICHING"
      [] pc = "report" -> "REPORTING"
      [] pc = "exit" -> "DONE"
      [] pc = "killed" -> "KILLED"

Lookups(log) == SelectSeq(log, LAMBDA c : c.op = "lookup")
Sleeps(log) == SelectSeq(log, LAMBDA c : c.op = "sleep")

\* The run was interrupted after its selection, in the loop.
KilledEnriching ==
    /\ pc = "killed"
    /\ \E k \in DOMAIN stdout : stdout[k].line = "found"

\* Lines of the output that report the counters.
CountLines == {k \in DOMAIN stdout : stdout[k].line = "DONE"}

----------------------------------------------------------------------------
(* C1 *)

\* C1: after any number of runs the store holds, for every hex identifier,
\* at most one record, and that record is in full the row of the most recent
\* save_enrichment for that hex (none if there was no write).
C1_OneRecordLastWrite ==
    /\ \A r \in aircraft_enriched : r.hex \in Keys
    /\ \A k \in Keys :
          {r \in aircraft_enriched : r.hex = k} =
              (IF last_write[k] = NullRow THEN {} ELSE {last_write[k]})

\* A key written by the previous run as not-found and by this run as found.
C1_Witness ==
    \E c \in Range(prev.saved), d \in Range(SavedCalls(calls)) :
        /\ c.hex = d.hex
        /\ ~c.found
        /\ d.found
        /\ \E r \in aircraft_enriched : r.hex = d.hex /\ r.source = ADSBDB

----------------------------------------------------------------------------
(* C3 *)

\* C3: when the lookup returned not-found and the record has been written,
\* the record of that hex has all descriptive fields null and source
\* not_found; and every record whose source is not_found has all descriptive
\* fields null.
C3_NotFoundPlaceholder ==
    /\ (pc = "saved" /\ data = <<>>) =>
          \E r \in aircraft_enriched :
              /\ r.hex = Upper(hex_codes[i + 1])
              /\ AllNull(r)
              /\ r.source = NOT_FOUND
    /\ \A r \in aircraft_enriched : r.source = NOT_FOUND => AllNull(r)

\* A not-found lookup has been written.
C3_Witness ==
    /\ pc = "saved"
    /\ data = <<>>
    /\ \E r \in aircraft_enriched :
          r.hex = Upper(hex_codes[i + 1]) /\ r.source = NOT_FOUND

----------------------------------------------------------------------------
(* C4 *)

\* C4: a run interrupted during ENRICHING ends in a terminal state other
\* than DONE, having issued no further lookup, and has reported the partial
\* counts: a line with the success and not-found counters as they stood.
C4_InterruptReportsCounts ==
    KilledEnriching =>
        /\ Phase # "DONE"
        /\ \E k \in CountLines :
              /\ stdout[k].success_count = success_count
              /\ stdout[k].not_found_count = not_found_count

----------------------------------------------------------------------------
(* C5 *)

\* C5: a run is stopped only between candidates: when it has stopped, every
\* lookup it issued has completed and its record has been written.
C5_StopsAtIterationBoundary ==
    pc = "killed" => Len(Lookups(calls)) = Len(SavedCalls(calls))

----------------------------------------------------------------------------
(* C2 *)

\* The instant a timestamp text stands for.
Instant(ts) == CHOOSE t \in 0..(ClockStart + MaxTicks) : IsoFormat(t) = ts

\* Row k of table aircraft lies in the window of the run's policy at time
\* now: strictly newer than now minus the days, or not before the start of
\* now's UTC day.
InWindow(k, now) ==
    IF argv.today_only
    THEN Instant(aircraft[k].timestamp) >= now - (now % TicksPerDay)
    ELSE Instant(aircraft[k].timestamp) > now - argv.days * TicksPerDay

Observed(h, now) ==
    \E k \in DOMAIN aircraft : aircraft[k].hex = h /\ InWindow(k, now)

SavedKeys(saved) == {c.hex : c \in Range(saved)}
FoundKeys(saved) == {c.hex : c \in {d \in Range(saved) : d.found}}
NotFoundKeys(saved) == {c.hex : c \in {d \in Range(saved) : ~d.found}}

\* The candidates the previous run had selected and not written.
PrevRemaining == Range(prev.hex_codes) \ SavedKeys(prev.saved)

\* The run has made its selection.
HasSelected == \E k \in DOMAIN stdout : stdout[k].line \in {"found", "none"}

\* A cancelled run has written k rows, k the number of its candidates whose
\* save_enrichment was reached: all k are in the store, and at most the
\* candidate in flight has no row.
C2_Durable ==
    pc = "killed" =>
        /\ Cardinality({r \in aircraft_enriched :
                           r.hex \in SavedKeys(SavedCalls(calls))})
              = Len(SavedCalls(calls))
        /\ Len(SavedCalls(calls)) <= Len(hex_codes)
        /\ Len(Lookups(calls)) - Len(SavedCalls(calls)) \in {0, 1}

\* The run that follows a cancelled run selects none of the candidates the
\* cancelled run stored with a registration.
C2_FoundNotReselected ==
    (prev.pc = "killed" /\ HasSelected) =>
        Range(hex_codes) \cap FoundKeys(prev.saved) = {}

\* The selection of the run that follows a cancelled run: every candidate
\* the cancelled run left unprocessed or stored as not-found, and observed in
\* the window, is selected, unless the limit has cut the list.
C2_SelectStep ==
    (pc = "select" /\ pc' \in {"enrich", "exit"} /\ prev.pc = "killed") =>
        \A h \in PrevRemaining \cup NotFoundKeys(prev.saved) :
            Observed(h, clock) =>
                h \in Range(hex_codes') \/ Len(hex_codes') = argv.batch_size

\* C2 (amended): a run cancelled after k of its n candidates were processed
\* has written exactly k rows, which exist afterwards; the next run selects
\* none of the processed candidates stored with a registration, and selects
\* again those stored as not-found placeholders, like the n-k remaining ones
\* (as far as they are observed in its window and its limit allows).
C2_CancelAndResume ==
    /\ [](C2_Durable /\ C2_FoundNotReselected)
    /\ [][C2_SelectStep]_vars

\* The run after a run cancelled with 1 of 2 candidates processed (stored as
\* not-found), over the same Observations: both are selected again.
C2_Witness ==
    /\ prev.pc = "killed"
    /\ Len(prev.saved) = 1
    /\ Len(prev.hex_codes) = 2
    /\ prev.nobs = Len(aircraft)
    /\ pc = "enrich"
    /\ NotFoundKeys(prev.saved) # {}
    /\ NotFoundKeys(prev.saved) \subseteq Range(hex_codes)
    /\ PrevRemaining \subseteq Range(hex_codes)

\* C2 as claimed: the k rows exist, and the next run selects exactly the
\* n-k remaining candidates.  Taken where nothing else can change the
\* selection: every candidate of the cancelled run was observed once, no
\* Observation was added, all are in the next run's window and the limit
\* does not cut the list.
C2_ResumeSelectsRemaining ==
    /\ C2_Durable
    /\ (/\ prev.pc = "killed"
        /\ HasSelected
        /\ Len(aircraft) = Len(prev.hex_codes)
        /\ prev.nobs = Len(aircraft)
        /\ \A k \in DOMAIN aircraft : InWindow(k, clock)
        /\ argv.batch_size >= Len(aircraft))
       => Range(hex_codes) = PrevRemaining

----------------------------------------------------------------------------
(* C8 *)

\* C8: the lookups and the delays of a run alternate, starting with a lookup;
\* a run that has left the loop has looked up each of its n candidates and
\* has slept n-1 times (0 times when n <= 1), so no delay follows the last
\* lookup.
C8_Pacing ==
    LET ls == SelectSeq(calls, LAMBDA c : c.op \in {"lookup", "sleep"})
        n == Len(hex_codes)
    IN  /\ \A j \in DOMAIN ls :
              ls[j].op = (IF j % 2 = 1 THEN "lookup" ELSE "sleep")
        /\ pc \in {"report", "exit"} =>
              /\ Len(Lookups(calls)) = n
              /\ Len(Sleeps(calls)) = (IF n <= 1 THEN 0 ELSE n - 1)

\* A batch of two candidates has ended with one delay.
C8_Witness ==
    /\ pc = "exit"
    /\ Len(hex_codes) = 2
    /\ Len(Lookups(calls)) = 2
    /\ Len(Sleeps(calls)) = 1

----------------------------------------------------------------------------
(* C9 *)

Lines == [k \in DOMAIN stdout |-> stdout[k].line]

\* The order of the states of a run that is not interrupted.
C9_Order ==
    (Phase' # Phase /\ Phase' \notin {"KILLED", "INITIALIZING"}) =>
        \/ Phase = "INITIALIZING" /\ Phase' = "SELECTING"
        \/ Phase = "SELECTING" /\ Phase' = "ENRICHING" /\ hex_codes' # <<>>
        \/ Phase = "SELECTING" /\ Phase' = "DONE" /\ hex_codes' = <<>>
        \/ Phase = "ENRICHING" /\ Phase' = "REPORTING"
        \/ Phase = "REPORTING" /\ Phase' = "DONE"

\* What a run has printed when it is DONE.
C9_Output ==
    pc = "exit" =>
        IF hex_codes = <<>>
        THEN Lines = <<"stats", "none">>
        ELSE /\ Lines = <<"stats", "found", "DONE", "TIME", "stats">>
             /\ stdout[3].success_count = success_count
             /\ stdout[3].not_found_count = not_found_count
             /\ stdout[3].total = Len(hex_codes)

\* C9 (amended): a run that is not interrupted and has selected at least one
\* candidate passes through INITIALIZING, SELECTING, ENRICHING, REPORTING and
\* DONE in that order and is DONE only after the final counts, the time and
\* the refreshed statistics were printed; a run whose selector returns zero
\* candidates goes from SELECTING to DONE without REPORTING, having printed
\* only the notice that nothing needs enrichment.
C9_RunOrder == []C9_Output /\ [][C9_Order]_vars

\* A run with candidates is DONE and has reported.
C9_Witness ==
    /\ pc = "exit"
    /\ hex_codes # <<>>
    /\ CountLines # {}

\* C9 as claimed: every run that is DONE has printed the final counts and,
\* last, the refreshed statistics, also with zero candidates.
C9_DoneAfterReporting ==
    pc = "exit" =>
        /\ CountLines # {}
        /\ stdout[Len(stdout)].line = "stats"
        /\ Len(stdout) > 1

----------------------------------------------------------------------------
(* C6 *)

\* The hex has a record with a registration.
Resolved(h) ==
    \E r \in aircraft_enriched : r.hex = h /\ r.registration # NULL

\* The selection has been made and nothing has happened since.
JustSelected == pc \in {"enrich", "exit"} /\ calls = <<>>

\* C6: what either selector returns has no duplicates and at most limit
\* entries, each a hex with an Observation inside the window (strictly newer
\* than now minus N days, or not before the start of the current UTC day)
\* and with no record or a record whose registration is null.
C6_SelectorSound ==
    JustSelected =>
        /\ \A x, y \in DOMAIN hex_codes :
              x # y => hex_codes[x] # hex_codes[y]
        /\ Len(hex_codes) <= argv.batch_size
        /\ \A h \in Range(hex_codes) : Observed(h, clock) /\ ~Resolved(h)

\* A recency selection of one hex that also has an Observation outside the
\* window, while the other hex, observed in the window, has a registration.
C6_Witness ==
    /\ JustSelected
    /\ ~argv.today_only
    /\ argv.batch_size = 2
    /\ Len(hex_codes) = 1
    /\ \E k \in DOMAIN aircraft :
          aircraft[k].hex = hex_codes[1] /\ ~InWindow(k, clock)
    /\ \E h \in Keys : Observed(h, clock) /\ Resolved(h)

----------------------------------------------------------------------------
(* C7 *)

ObsOf(h) == {k \in DOMAIN aircraft : aircraft[k].hex = h}

\* All the Observations of the hex, and those inside the window.
TotalCount(h) == Cardinality(ObsOf(h))
WindowCount(h) == Cardinality({k \in ObsOf(h) : InWindow(k, clock)})

\* The instant of the most recent Observation of the hex.
LastSeen(h) ==
    CHOOSE t \in {Instant(aircraft[k].timestamp) : k \in ObsOf(h)} :
        \A k \in ObsOf(h) : Instant(aircraft[k].timestamp) <= t

Eligible(h) == Observed(h, clock) /\ ~Resolved(h)

\* The recency selection is ranked by last seen descending, then by Cnt
\* descending, and a limit keeps the highest ranked.
RankedBy(Cnt(_)) ==
    LET Before(g, h) ==
            \/ LastSeen(g) > LastSeen(h)
            \/ LastSeen(g) = LastSeen(h) /\ Cnt(g) >= Cnt(h)
    IN  (JustSelected /\ ~argv.today_only) =>
            /\ \A x, y \in DOMAIN hex_codes :
                  x < y => Before(hex_codes[x], hex_codes[y])
            /\ \A h \in Keys \ Range(hex_codes) :
                  Eligible(h) =>
                      \A x \in DOMAIN hex_codes : Before(hex_codes[x], h)

\* C7 (amended): the recency selector orders by most recent Observation
\* descending and, among equals, by the number of Observations inside the
\* window descending; a limit keeps the highest ranked under this order.
C7_RankedByWindowCount == RankedBy(WindowCount)

\* Two candidates seen last at the same instant: the first has more
\* Observations inside the window, the second more in all.
C7_Witness ==
    /\ JustSelected
    /\ ~argv.today_only
    /\ Len(hex_codes) = 2
    /\ LastSeen(hex_codes[1]) = LastSeen(hex_codes[2])
    /\ WindowCount(hex_codes[1]) > WindowCount(hex_codes[2])
    /\ TotalCount(hex_codes[1]) < TotalCount(hex_codes[2])

\* C7 as claimed: the tie is broken by the count of all Observations.  Taken
\* where the query's ORDER BY leaves no two candidates tied, so that its
\* result is the only one it can return.
C7_RankedByTotalCount ==
    (\A g, h \in Keys :
        (Eligible(g) /\ Eligible(h) /\ g # h) =>
            LastSeen(g) # LastSeen(h) \/ WindowCount(g) # WindowCount(h))
    => RankedBy(TotalCount)

----------------------------------------------------------------------------
(* C10 *)

\* The hex has a record whose registration is null.
Placeholder(h) ==
    \E r \in aircraft_enriched : r.hex = h /\ r.registration = NULL

\* A selection takes every hex with a null-registration record that is
\* observed in its window, unless the limit has cut the list.
C10_SelectStep ==
    (pc = "select" /\ pc' \in {"enrich", "exit"}) =>
        \A h \in Keys :
            (Placeholder(h) /\ Observed(h, clock)) =>
                h \in Range(hex_codes') \/ Len(hex_codes') = argv.batch_size

\* C10: a hex whose record has a null registration is a candidate of every
\* later selection whose window holds one of its Observations; a not-found
\* placeholder does not keep it out.
C10_PlaceholderReselected == [][C10_SelectStep]_vars

\* A hex stored as not-found has been selected again.
C10_Witness ==
    /\ JustSelected
    /\ \E r \in aircraft_enriched :
          r.source = NOT_FOUND /\ r.hex \in Range(hex_codes)

----------------------------------------------------------------------------
(* C11 *)

\* The lookup returned a result whose registration is neither null nor the
\* empty text.
Registered(d) ==
    d # <<>> /\ Get(d[1], "registration", NULL) \notin {NULL, <<>>}

\* The candidates of the run processed at an iteration boundary.
Processed == IF pc = "enrich" THEN i ELSE i + 1

\* The record of the iteration, once written: populated from the result if
\* the lookup gave a registration, the not-found placeholder otherwise.
C11_Record ==
    pc = "saved" =>
        LET r == last_write[Upper(hex_codes[i + 1])]
        IN  /\ r \in aircraft_enriched
            /\ IF Registered(data)
               THEN /\ r.registration = data[1].registration
                    /\ r.type = data[1].type
                    /\ r.manufacturer = data[1].manufacturer
                    /\ r.operator = data[1].operator
                    /\ r.origin_country = data[1].origin_country
                    /\ r.source = ADSBDB
               ELSE AllNull(r) /\ r.source = NOT_FOUND

\* At the iteration boundaries the counters add up to the candidates
\* processed, one record was written per candidate processed, and the run
\* reaches REPORTING with all its candidates processed.
C11_Counters ==
    pc \in {"enrich", "pace", "report"} =>
        /\ success_count + not_found_count = Processed
        /\ Len(SavedCalls(calls)) = Processed
        /\ success_count =
              Len(SelectSeq(SavedCalls(calls), LAMBDA c : c.found))
        /\ pc = "report" => Processed = Len(hex_codes)

\* The steps of an iteration: one writes one record and no counter, one
\* increments one counter by one, the others leave records and counters.
C11_Step ==
    pc \in {"enrich", "in_flight", "returned", "saved", "pace"} =>
        CASE pc = "returned" /\ pc' = "saved" ->
                /\ Len(SavedCalls(calls')) = Len(SavedCalls(calls)) + 1
                /\ success_count' = success_count
                /\ not_found_count' = not_found_count
          [] pc = "saved" /\ pc' = "pace" ->
                /\ aircraft_enriched' = aircraft_enriched
                /\ IF Registered(data)
                   THEN /\ success_count' = success_count + 1
                        /\ not_found_count' = not_found_count
                   ELSE /\ success_count' = success_count
                        /\ not_found_count' = not_found_count + 1
          [] OTHER ->
                /\ aircraft_enriched' = aircraft_enriched
                /\ success_count' = success_count
                /\ not_found_count' = not_found_count

\* C11 (amended): each iteration writes one record and increments one
\* counter: the populated record and the success counter if and only if the
\* lookup returned a result whose registration is neither null nor empty,
\* otherwise the placeholder and the not-found counter; at every iteration
\* boundary the two counters add up to the candidates processed, and to the
\* number of candidates selected when the run reaches REPORTING.
C11_OneRecordOneCounter ==
    /\ [](C11_Record /\ C11_Counters)
    /\ [][C11_Step]_vars

\* The second iteration of a run, after a first one that succeeded, has
\* written the placeholder for a result whose registration is empty.
C11_Witness ==
    /\ pc = "saved"
    /\ i = 1
    /\ success_count = 1
    /\ data # <<>>
    /\ Get(data[1], "registration", NULL) = <<>>
    /\ last_write[Upper(hex_codes[2])].source = NOT_FOUND

\* C11 as claimed: the populated record is written if and only if the lookup
\* returned a result with a non-null registration.
C11_NonNullIsPopulated ==
    pc = "saved" =>
        ((data # <<>> /\ Get(data[1], "registration", NULL) # NULL)
            <=> last_write[Upper(hex_codes[i + 1])].source = ADSBDB)

----------------------------------------------------------------------------
(* C12 *)

\* What the lookup returns when the request fails (transport failure,
\* timeout, malformed payload): the exception is caught, the result is None.
FailedLookup == enrich_from_adsbdb([raised |-> TRUE])

\* The lookups of the run so far are its first candidates, in the order of
\* the selection and each once; a run that has left the loop by its end has
\* looked up them all.
C12_InOrder ==
    LET ls == Lookups(calls) IN
    /\ Len(ls) <= Len(hex_codes)
    /\ \A k \in DOMAIN ls : ls[k].hex = Upper(hex_codes[k])
    /\ \A x, y \in DOMAIN ls : x # y => ls[x].hex # ls[y].hex
    /\ (pc = "report" \/ (pc = "exit" /\ hex_codes # <<>>)) =>
          Len(ls) = Len(hex_codes)

\* After a failed lookup the run writes the placeholder of the candidate;
\* whatever the lookups gave, the loop goes on to the next candidate, or to
\* the report after the last one; nothing but an interrupt takes the run out
\* of the loop earlier.
C12_Step ==
    /\ (pc = "returned" /\ data = FailedLookup /\ pc' \notin {pc, "killed"}) =>
          /\ pc' = "saved"
          /\ \E r \in aircraft_enriched' :
                r.hex = Upper(hex_codes[i + 1]) /\ r.source = NOT_FOUND
    /\ (pc = "saved" /\ pc' \notin {pc, "killed"}) => pc' = "pace"
    /\ (pc = "pace" /\ pc' \notin {pc, "killed"}) =>
          IF i + 1 < Len(hex_codes)
          THEN pc' = "enrich" /\ i' = i + 1 /\ hex_codes' = hex_codes
          ELSE pc' = "report"
    /\ (Phase = "ENRICHING" /\ Phase' \notin {"ENRICHING", "KILLED"}) =>
          /\ Phase' = "REPORTING"
          /\ Len(Lookups(calls')) = Len(hex_codes)

\* C12: a failed lookup does not end the run: it is stored as not-found and
\* the run proceeds to the next candidate; within a run every selected
\* candidate is looked up exactly once, in the order of the selection,
\* whether or not earlier lookups failed.
C12_FailedLookupNotFatal == []C12_InOrder /\ [][C12_Step]_vars

\* The lookup of the first of two candidates gave nothing, its placeholder
\* was written, and the second candidate has been looked up and written too.
C12_Witness ==
    /\ pc = "exit"
    /\ Len(hex_codes) = 2
    /\ Len(Lookups(calls)) = 2
    /\ SavedCalls(calls)[1].found = FALSE
    /\ SavedCalls(calls)[1].hex = Upper(hex_codes[1])
    /\ SavedCalls(calls)[2].hex = Upper(hex_codes[2])
    /\ not_found_count >= 1

----------------------------------------------------------------------------
(* C13 *)

\* The record keyed by the uppercased hex has a registration.
ResolvedKey(h) == Resolved(Upper(h))

\* Records with a registration stay as they are, and no hex that has one is
\* selected or looked up.
C13_Step ==
    /\ \A r \in aircraft_enriched :
          r.registration # NULL => r \in aircraft_enriched'
    /\ (pc = "select" /\ pc' \in {"enrich", "exit"}) =>
          \A h \in Range(hex_codes') : ~ResolvedKey(h)
    /\ (pc = "enrich" /\ pc' = "in_flight") => ~ResolvedKey(hex_codes[i + 1])
    /\ (pc = "returned" /\ pc' = "saved") => ~ResolvedKey(hex_codes[i + 1])

\* The hex codes of table aircraft are the keys save_enrichment writes, and
\* the candidates of a run have no record with a registration until the run
\* writes it.
C13_Keys ==
    /\ \A k \in DOMAIN aircraft : aircraft[k].hex = Upper(aircraft[k].hex)
    /\ \A k \in DOMAIN hex_codes :
          (pc \in Running /\ ResolvedKey(hex_codes[k])) =>
              \E c \in Range(SavedCalls(calls)) :
                  c.hex = Upper(hex_codes[k]) /\ c.found

\* C13: once a record with a non-null registration has been written for an
\* observed hex, no later run selects that hex, looks it up again or
\* overwrites its record, whatever the case of the hex the receiver reported
\* (store_data stores it uppercased, as save_enrichment keys the record).
C13_ResolvedIsFinal == []C13_Keys /\ [][C13_Step]_vars

\* A later run has selected the other hex only: the first one, still
\* observed in the window, got its registration from the previous run.
C13_Witness ==
    /\ JustSelected
    /\ pc = "enrich"
    /\ \E c \in Range(prev.saved) :
          /\ c.found
          /\ Resolved(c.hex)
          /\ Observed(c.hex, clock)
          /\ c.hex \notin Range(hex_codes)
          /\ Len(hex_codes) < argv.batch_size

----------------------------------------------------------------------------
(* C14 *)

\* Two hex codes observed in the window that the ORDER BY of the run's
\* policy does not tell apart.
Tied(g, h) ==
    /\ g # h
    /\ Observed(g, clock)
    /\ Observed(h, clock)
    /\ WindowCount(g) = WindowCount(h)
    /\ argv.today_only \/ LastSeen(g) = LastSeen(h)

\* The request for the hex is in flight.
LookingUp(h) == pc = "in_flight" /\ Upper(hex_codes[i + 1]) = h

\* C14: with the Observations, the window and a limit of at least one fixed,
\* every hex observed in the window that has no record with a registration
\* is looked up by some run.  Taken where the ORDER BY leaves no two hex
\* codes tied, so that each selection is the only one the query can return.
C14_EveryCandidateLookedUp ==
    \A h \in Keys :
        (/\ pc = "select"
         /\ argv.batch_size >= 1
         /\ Eligible(h)
         /\ \A g, k \in Keys : ~Tied(g, k))
        ~> LookingUp(h)

====
